---- MODULE Spec2Model ----
(***************************************************************************)
(* Timestamp coincidence counting of S15lib (g2lib): the sliding-cursor    *)
(* histograms _delta_loop, _delta_loop_ts and _cond_delta_loop, and the    *)
(* 4-fold coincidence counters count_4coinc and count_4coinc_indiv.        *)
(*                                                                         *)
(* Every function is a frame (a record of its arguments and C locals,      *)
(* fields named as in the source) that is entered by a Call action, is     *)
(* advanced one outer-loop iteration per action and is left by a Return    *)
(* action.  One call runs at a time (the code is single-threaded).         *)
(* Timestamps are integer-valued; source indices are 0-based and are kept  *)
(* 0-based here (At(s, i) reads s[i]).                                     *)
(***************************************************************************)
EXTENDS Integers, Sequences, FiniteSets, TLC

VARIABLES dl, dts, cd, c4, ci

vars == <<dl, dts, cd, c4, ci>>

-----------------------------------------------------------------------------
(* Bounds of the model *)

\* largest timestamp of a histogram input
MaxTime == 3
\* largest length of a histogram input array
MaxLen == 3
\* largest number of bins
MaxBins == 2
\* largest bin width
MaxWidth == 2

\* largest timestamp and largest length of an input array that is not sorted
MaxAnyTime == 1
MaxAnyLen == 2

Times == 0..MaxTime
AnyTimes == 0..MaxAnyTime
\* the numbers of bins and the bin widths tried: the smallest and the largest
BinsSet == {1, MaxBins}
WidthSet == {1, MaxWidth}

\* s is ascending (non-decreasing)
Asc(s) == \A i \in 1..(Len(s) - 1) : s[i] <= s[i + 1]

\* the timestamp arrays passed to delta_loop and delta_loop_ts: the ascending
\* ones the callers are to supply, and short ones in any order (the functions
\* do not check the order)
IsHistInput(s) ==
  \/ Asc(s)
  \/ Len(s) <= MaxAnyLen /\ \A i \in 1..Len(s) : s[i] \in AnyTimes

\* s[i] with the source's 0-based index
At(s, i) == s[i + 1]

\* np.zeros(bins, dtype=DTYPE)
Zeros(bins) == [x \in 0..(bins - 1) |-> 0]

\* sum of the entries of a histogram
RECURSIVE SumUpTo(_, _)
SumUpTo(h, n) == IF n < 0 THEN 0 ELSE h[n] + SumUpTo(h, n - 1)
HistSum(h) == SumUpTo(h, Cardinality(DOMAIN h) - 1)

-----------------------------------------------------------------------------
(* _delta_loop and its wrapper delta_loop *)

DeltaIdle ==
  [pc |-> "idle", t1 |-> <<>>, t2 |-> <<>>, bins |-> 1, bin_width |-> 1,
   it_b |-> 0, idx2 |-> 0, histogram |-> Zeros(1), incs |-> <<>>, reads |-> 0]

\* the locals of _delta_loop before its outer loop
DeltaEntry(t1, t2, bins, bin_width) ==
  [pc |-> "loop", t1 |-> t1, t2 |-> t2, bins |-> bins, bin_width |-> bin_width,
   it_b |-> 0, idx2 |-> 0, histogram |-> Zeros(bins), incs |-> <<>>, reads |-> 0]

\* the bin a difference k falls in: int(k // bin_width)
BinOf(k, bin_width) == k \div bin_width

\* `if k >= max_range: break`, with max_range = bins * bin_width
DeltaPastGt(k, bins, bin_width) == k > bins * bin_width
DeltaPast(k, bins, bin_width) == k >= bins * bin_width

RECURSIVE DeltaWhile(_, _, _, _)

\* a scan that ends at its first counted stop
DeltaCountOnce(fr, b, idx, n) ==
  LET k == At(fr.t2, idx + n) - b
  IN [fr EXCEPT !.reads = @ + 1,
                !.histogram[BinOf(k, fr.bin_width)] = @ + 1,
                !.incs = Append(@, [i |-> fr.it_b, j |-> idx + n, k |-> k])]

\* what the scan does with a stop c >= b at difference k inside the window:
\* it counts it and goes on with the next stop (no break follows the increment)
DeltaCount(fr, b, idx, n) ==
  LET k == At(fr.t2, idx + n) - b
      g == [fr EXCEPT !.reads = @ + 1,
                      !.histogram[BinOf(k, fr.bin_width)] = @ + 1,
                      !.incs = Append(@, [i |-> fr.it_b, j |-> idx + n, k |-> k])]
  IN DeltaWhile(g, b, idx, n + 1)

\* a scan that also moves the cursor past a stop equal to the start
DeltaWhileLe(fr, b, idx, n) ==
  IF idx + n >= Len(fr.t2) THEN fr
  ELSE LET c == At(fr.t2, idx + n) IN
       IF c <= b
         THEN DeltaWhile([fr EXCEPT !.reads = @ + 1, !.idx2 = idx + n + 1], b, idx, n + 1)
         ELSE IF DeltaPast(c - b, fr.bins, fr.bin_width)
                THEN [fr EXCEPT !.reads = @ + 1]
                ELSE DeltaCount(fr, b, idx, n)

\* the `while True` scan of _delta_loop for the start b; n is the number of
\* stops read so far in this scan, idx the cursor the scan started from
DeltaWhile(fr, b, idx, n) ==
  IF idx + n >= Len(fr.t2) THEN fr
  ELSE LET c == At(fr.t2, idx + n) IN
       IF c < b
         THEN DeltaWhile([fr EXCEPT !.reads = @ + 1, !.idx2 = idx + n + 1], b, idx, n + 1)
         ELSE IF DeltaPast(c - b, fr.bins, fr.bin_width)
                THEN [fr EXCEPT !.reads = @ + 1]
                ELSE DeltaCount(fr, b, idx, n)

\* an iteration that leaves the cursor behind the last stop it counted
DeltaBodySkip(fr) ==
  LET g == DeltaWhile(fr, At(fr.t1, fr.it_b), fr.idx2, 0)
  IN [g EXCEPT !.it_b = @ + 1,
               !.idx2 = IF Len(g.incs) > Len(fr.incs)
                          THEN g.incs[Len(g.incs)].j + 1 ELSE @]

\* an iteration that scans t2 from its first element, without the cursor
DeltaBodyRescan(fr) ==
  LET g == DeltaWhile(fr, At(fr.t1, fr.it_b), 0, 0)
  IN [g EXCEPT !.it_b = @ + 1]

\* one iteration of `for it_b in range(l_t1)`
DeltaBody(fr) ==
  LET g == DeltaWhile(fr, At(fr.t1, fr.it_b), fr.idx2, 0)
  IN [g EXCEPT !.it_b = @ + 1]

\* the whole of _delta_loop: the frame at `return histogram`
RECURSIVE DeltaRun(_)
DeltaRun(fr) == IF fr.it_b >= Len(fr.t1) THEN fr ELSE DeltaRun(DeltaBody(fr))

_delta_loop(t1, t2, bins, bin_width) == DeltaRun(DeltaEntry(t1, t2, bins, bin_width)).histogram

\* what a call of the wrapper delta_loop gives back: `isinstance(t1[0], np.int64)`
\* raises IndexError on an empty t1, otherwise the histogram of _delta_loop
delta_loop(t1, t2, bins, bin_width_ns) ==
  IF t1 = <<>>
    THEN [raised |-> "IndexError"]
    ELSE [histogram |-> _delta_loop(t1, t2, bins, bin_width_ns)]

NoCall ==
  /\ dl.pc = "idle"
  /\ dts.pc = "idle"
  /\ cd.pc = "idle"
  /\ c4.pc = "idle"
  /\ ci.pc = "idle"

\* a call whose cursor is not created afresh: it starts where an earlier call
\* may have left it
CallDeltaLoopStale ==
  /\ NoCall
  /\ \E l_t1 \in 1..MaxLen, l_t2 \in 0..MaxLen :
       \E t1 \in [1..l_t1 -> Times], t2 \in [1..l_t2 -> Times],
          bins \in BinsSet, bin_width \in WidthSet :
         /\ IsHistInput(t1) /\ IsHistInput(t2)
         /\ \E left \in 0..l_t2 :
              dl' = [DeltaEntry(t1, t2, bins, bin_width) EXCEPT !.idx2 = left]
  /\ UNCHANGED <<dts, cd, c4, ci>>

\* delta_loop(t1, t2, bins, bin_width_ns) on a non-empty t1
CallDeltaLoop ==
  /\ NoCall
  /\ \E l_t1 \in 1..MaxLen, l_t2 \in 0..MaxLen :
       \E t1 \in [1..l_t1 -> Times], t2 \in [1..l_t2 -> Times],
          bins \in BinsSet, bin_width \in WidthSet :
         /\ IsHistInput(t1) /\ IsHistInput(t2)
         /\ dl' = DeltaEntry(t1, t2, bins, bin_width)
  /\ UNCHANGED <<dts, cd, c4, ci>>

\* delta_loop on an empty t1: `t1[0]` raises IndexError before _delta_loop is entered
CallDeltaLoopEmpty ==
  /\ NoCall
  /\ \E l_t2 \in 0..MaxLen :
       \E t2 \in [1..l_t2 -> Times], bins \in BinsSet, bin_width \in WidthSet :
         /\ IsHistInput(t2)
         /\ dl' = [DeltaIdle EXCEPT !.pc = "raised", !.t2 = t2, !.bins = bins,
                                    !.bin_width = bin_width, !.histogram = Zeros(bins)]
  /\ UNCHANGED <<dts, cd, c4, ci>>

DeltaLoopIter ==
  /\ dl.pc = "loop"
  /\ dl.it_b < Len(dl.t1)
  /\ dl' = DeltaBody(dl)
  /\ UNCHANGED <<dts, cd, c4, ci>>

DeltaLoopReturn ==
  /\ dl.pc = "loop"
  /\ dl.it_b >= Len(dl.t1)
  /\ dl' = [dl EXCEPT !.pc = "done"]
  /\ UNCHANGED <<dts, cd, c4, ci>>

\* the caller drops the result (or the exception); the next call starts afresh
DeltaLoopExit ==
  /\ dl.pc \in {"done", "raised"}
  /\ dl' = DeltaIdle
  /\ UNCHANGED <<dts, cd, c4, ci>>

-----------------------------------------------------------------------------
(* _delta_loop_ts and its wrapper delta_loop_ts *)

TsIdle ==
  [pc |-> "idle", t1s |-> <<>>, t2s |-> <<>>, bins_len |-> 1, bin_width |-> 1,
   t1_idx |-> 0, t2_idx_left |-> 0, histogram |-> Zeros(1),
   mask1 |-> <<>>, mask2 |-> <<>>, incs |-> <<>>]

\* the locals of _delta_loop_ts before its outer loop
TsEntry(t1s, t2s, bins_len, bin_width) ==
  [pc |-> "loop", t1s |-> t1s, t2s |-> t2s, bins_len |-> bins_len,
   bin_width |-> bin_width, t1_idx |-> 0, t2_idx_left |-> 0,
   histogram |-> Zeros(bins_len),
   mask1 |-> [x \in 1..Len(t1s) |-> 0], mask2 |-> [x \in 1..Len(t2s) |-> 0],
   incs |-> <<>>]

\* `if dt >= window_size: break`, with window_size = bins_len * bin_width
TsPast(dt, bins_len, bin_width) == dt >= bins_len * bin_width

\* a store that leaves mask2 alone
TsStoreNoMask2(fr, t2_idx, dt) ==
  [fr EXCEPT !.mask1[fr.t1_idx + 1] = 1,
             !.histogram[BinOf(dt, fr.bin_width)] = @ + 1,
             !.incs = Append(@, [i |-> fr.t1_idx, j |-> t2_idx, k |-> dt])]

\* a store that marks the stop in the caller's t2 array instead of a mask
TsStoreInPlace(fr, t2_idx, dt) ==
  [fr EXCEPT !.mask1[fr.t1_idx + 1] = 1,
             !.t2s[t2_idx + 1] = 0 - 1,
             !.histogram[BinOf(dt, fr.bin_width)] = @ + 1,
             !.incs = Append(@, [i |-> fr.t1_idx, j |-> t2_idx, k |-> dt])]

\* "Store valid coincidence": both masks and the histogram
TsStore(fr, t2_idx, dt) ==
  [fr EXCEPT !.mask1[fr.t1_idx + 1] = 1,
             !.mask2[t2_idx + 1] = 1,
             !.histogram[BinOf(dt, fr.bin_width)] = @ + 1,
             !.incs = Append(@, [i |-> fr.t1_idx, j |-> t2_idx, k |-> dt])]

\* the `while True` scan of _delta_loop_ts for the start t1; n as after `n += 1`
RECURSIVE TsWhile(_, _, _, _)
TsWhile(fr, t1, t2_idx0, n) ==
  LET t2_idx == t2_idx0 + n IN
  IF t2_idx >= Len(fr.t2s) THEN fr
  ELSE LET t2 == At(fr.t2s, t2_idx) IN
       IF t2 < t1
         THEN TsWhile([fr EXCEPT !.t2_idx_left = t2_idx + 1], t1, t2_idx0, n + 1)
         ELSE IF TsPast(t2 - t1, fr.bins_len, fr.bin_width)
                THEN fr
                ELSE TsWhile(TsStore(fr, t2_idx, t2 - t1), t1, t2_idx0, n + 1)

\* an iteration that puts the cursor back to 0 when its start found no stop
TsBodyReset(fr) ==
  LET g == TsWhile(fr, At(fr.t1s, fr.t1_idx), fr.t2_idx_left, 0)
  IN [g EXCEPT !.t1_idx = @ + 1,
               !.t2_idx_left = IF Len(g.incs) = Len(fr.incs) THEN 0 ELSE @]

\* one iteration of `for t1_idx in range(t1s_len)`
TsBody(fr) ==
  LET g == TsWhile(fr, At(fr.t1s, fr.t1_idx), fr.t2_idx_left, 0)
  IN [g EXCEPT !.t1_idx = @ + 1]

RECURSIVE TsRun(_)
TsRun(fr) == IF fr.t1_idx >= Len(fr.t1s) THEN fr ELSE TsRun(TsBody(fr))

\* mask.astype(bool)
AsBool(mask) == [x \in DOMAIN mask |-> mask[x] # 0]

\* the triple _delta_loop_ts returns
_delta_loop_ts(t1s, t2s, bins_len, bin_width) ==
  LET fr == TsRun(TsEntry(t1s, t2s, bins_len, bin_width))
  IN <<fr.histogram, AsBool(fr.mask1), AsBool(fr.mask2)>>

CallDeltaLoopTs ==
  /\ NoCall
  /\ \E l_t1 \in 0..MaxLen, l_t2 \in 0..MaxLen :
       \E t1 \in [1..l_t1 -> Times], t2 \in [1..l_t2 -> Times],
          bins \in BinsSet, bin_width \in WidthSet :
         /\ IsHistInput(t1) /\ IsHistInput(t2)
         /\ dts' = TsEntry(t1, t2, bins, bin_width)
  /\ UNCHANGED <<dl, cd, c4, ci>>

DeltaLoopTsIter ==
  /\ dts.pc = "loop"
  /\ dts.t1_idx < Len(dts.t1s)
  /\ dts' = TsBody(dts)
  /\ UNCHANGED <<dl, cd, c4, ci>>

DeltaLoopTsReturn ==
  /\ dts.pc = "loop"
  /\ dts.t1_idx >= Len(dts.t1s)
  /\ dts' = [dts EXCEPT !.pc = "done"]
  /\ UNCHANGED <<dl, cd, c4, ci>>

DeltaLoopTsExit ==
  /\ dts.pc = "done"
  /\ dts' = TsIdle
  /\ UNCHANGED <<dl, cd, c4, ci>>

-----------------------------------------------------------------------------
(* unsigned long long (ull) arithmetic of the coincidence counters.          *)
(* A ull is kept exactly, as its four 16-bit limbs <<x3, x2, x1, x0>>        *)
(* (value x3*2^48 + x2*2^32 + x1*2^16 + x0); timestamps and coincw_ns        *)
(* themselves are small integers.                                            *)

Limb == 2^16

\* the ull holding the small non-negative integer x
ToULL(x) == <<0, 0, x \div Limb, x % Limb>>

\* the ull 2^64 - y, for a small y > 0: the limb-wise complement of y - 1
NegULL(y) ==
  <<Limb - 1, Limb - 1, Limb - 1 - ((y - 1) \div Limb), Limb - 1 - ((y - 1) % Limb)>>

\* `cutoff = t - coincw_ns`: t is ull and coincw_ns is int, so the difference
\* is taken in unsigned long long and wraps modulo 2^64 when t < coincw_ns
Cutoff(t, coincw_ns) ==
  IF t - coincw_ns >= 0 THEN ToULL(t - coincw_ns) ELSE NegULL(coincw_ns - t)

\* x <= y on ulls
RECURSIVE LexLe(_, _, _)
LexLe(x, y, n) ==
  IF n > Len(x) THEN TRUE
  ELSE IF x[n] # y[n] THEN x[n] < y[n] ELSE LexLe(x, y, n + 1)
LeULL(x, y) == LexLe(x, y, 1)

\* `window.front().t <= cutoff`: the queued event is flushed
AtOrBefore(t, cutoff) == LeULL(ToULL(t), cutoff)

-----------------------------------------------------------------------------
(* count_4coinc *)

\* largest timestamp of a coincidence input
MaxCoincTime == 2
\* largest number of events of a coincidence input
MaxEvents == 3
\* largest coincidence window
MaxCoincw == 2

CoincTimes == 0..MaxCoincTime
CoincwSet == 1..MaxCoincw
\* detection patterns: the four single channels and all four at once
Patterns == {1, 2, 4, 8, 15}
Channels == 0..3

\* `p & (1 << i) != 0`
Bit(p, i) == (p \div (2^i)) % 2 = 1

\* the largest value of a C int (`cdef int ... total`, 32 bits)
IntMax == 2147483647

\* `total += x` on the C int total, x >= 0: the sum leaves the int range
IntOverflows(a, x) == a >= 0 /\ x > IntMax - a

\* the int a two's-complement build leaves in total after `total += x`:
\* a + x, less 2^32 when the sum leaves the int range
AddInt(a, x) ==
  IF IntOverflows(a, x) THEN ((a - (IntMax - x)) - 1) - IntMax - 1 ELSE a + x

\* signed overflow is undefined behaviour: the ints a build may leave in
\* total, the wrapped sum w among them
OverflowOutcomes(w) == {w, 0, IntMax, (0 - IntMax) - 1}

\* get_window4coincs(counts, idx); the product of three counts stays far below
\* 2^31 for every stream modelled here (at most a few hundred queued events)
get_window4coincs(counts, idx) ==
  IF idx = 0 THEN counts[1] * counts[2] * counts[3]
  ELSE IF idx = 1 THEN counts[0] * counts[2] * counts[3]
  ELSE IF idx = 2 THEN counts[0] * counts[1] * counts[3]
  ELSE counts[0] * counts[1] * counts[2]

Coinc4Idle ==
  [pc |-> "idle", ts |-> <<>>, ps |-> <<>>, coincw_ns |-> 1, j |-> 0, total |-> 0,
   ch_counts |-> [i \in Channels |-> 0], window |-> <<>>, kept |-> <<>>,
   base |-> [i \in Channels |-> 0], adds |-> <<>>]

\* the locals of count_4coinc before its loop; base is ch_counts as the flush
\* loop of the last event left it, adds the additions to total made for it
Coinc4Entry(ts, ps, coincw_ns) ==
  [pc |-> "loop", ts |-> ts, ps |-> ps, coincw_ns |-> coincw_ns, j |-> 0, total |-> 0,
   ch_counts |-> [i \in Channels |-> 0], window |-> <<>>, kept |-> <<>>,
   base |-> [i \in Channels |-> 0], adds |-> <<>>]

\* a flush that pops the events without taking them off the active counts
RECURSIVE Coinc4FlushKeep(_, _)
Coinc4FlushKeep(fr, cutoff) ==
  IF fr.window # <<>> /\ AtOrBefore(Head(fr.window).t, cutoff)
    THEN Coinc4FlushKeep([fr EXCEPT !.window = Tail(@)], cutoff)
    ELSE fr

\* the flush loop of count_4coinc: pop the front while it is at or before the cutoff
RECURSIVE Coinc4Flush(_, _)
Coinc4Flush(fr, cutoff) ==
  IF fr.window # <<>> /\ AtOrBefore(Head(fr.window).t, cutoff)
    THEN LET _p == Head(fr.window).p
         IN Coinc4Flush([fr EXCEPT !.window = Tail(@),
                                   !.ch_counts = [i \in Channels |->
                                        IF Bit(_p, i) THEN @[i] - 1 ELSE @[i]]],
                        cutoff)
    ELSE fr

\* a count that adds, for every bit, the product of the counts as the flush
\* left them, and adds the bits of the event to the counts afterwards
RECURSIVE Coinc4CountAfter(_, _, _)
Coinc4CountAfter(fr, p, i) ==
  IF i >= 4
    THEN [fr EXCEPT !.ch_counts = [c \in Channels |-> IF Bit(p, c) THEN @[c] + 1 ELSE @[c]]]
  ELSE IF Bit(p, i)
         THEN Coinc4CountAfter(
                [fr EXCEPT !.total = AddInt(@, get_window4coincs(fr.ch_counts, i)),
                           !.adds = Append(@, [i |-> i, counts |-> fr.ch_counts,
                                               x |-> get_window4coincs(fr.ch_counts, i)])],
                p, i + 1)
         ELSE Coinc4CountAfter(fr, p, i + 1)

\* "Count and add coincidences": `for i in range(4)`, from bit i on
RECURSIVE Coinc4Count(_, _, _)
Coinc4Count(fr, p, i) ==
  IF i >= 4 THEN fr
  ELSE IF Bit(p, i)
         THEN Coinc4Count([fr EXCEPT !.total = AddInt(@, get_window4coincs(fr.ch_counts, i)),
                                     !.pc = IF IntOverflows(fr.total,
                                                            get_window4coincs(fr.ch_counts, i))
                                              THEN "undefined" ELSE @,
                                     !.adds = Append(@, [i |-> i, counts |-> fr.ch_counts,
                                                         x |-> get_window4coincs(fr.ch_counts, i)]),
                                     !.ch_counts[i] = @ + 1], p, i + 1)
         ELSE Coinc4Count(fr, p, i + 1)

\* one iteration of `for j in range(length)`; kept is the window as it is when
\* the coincidences of this event are counted
Coinc4Body(fr) ==
  LET t == At(fr.ts, fr.j)
      p == At(fr.ps, fr.j)
      f == Coinc4Flush(fr, Cutoff(t, fr.coincw_ns))
      g == Coinc4Count([f EXCEPT !.kept = f.window, !.base = f.ch_counts,
                                 !.adds = <<>>], p, 0)
  IN [g EXCEPT !.window = Append(@, [t |-> t, p |-> p]), !.j = @ + 1]

RECURSIVE Coinc4Run(_)
Coinc4Run(fr) ==
  IF fr.pc # "loop" \/ fr.j >= Len(fr.ts) THEN fr ELSE Coinc4Run(Coinc4Body(fr))

count_4coinc(ts, ps, coincw_ns) == Coinc4Run(Coinc4Entry(ts, ps, coincw_ns)).total

CallCount4coinc ==
  /\ NoCall
  /\ \E length \in 0..MaxEvents :
       \E ts \in [1..length -> CoincTimes], ps \in [1..length -> Patterns],
          coincw_ns \in CoincwSet :
         /\ Asc(ts)
         /\ c4' = Coinc4Entry(ts, ps, coincw_ns)
  /\ UNCHANGED <<dl, dts, cd, ci>>

\* one loop iteration; when `total += ...` overflows the int the call goes on
\* with undefined behaviour and is followed no further
Count4coincIter ==
  /\ c4.pc = "loop"
  /\ c4.j < Len(c4.ts)
  /\ LET g == Coinc4Body(c4)
     IN IF g.pc = "undefined"
          THEN \E v \in OverflowOutcomes(g.total) : c4' = [g EXCEPT !.total = v]
          ELSE c4' = g
  /\ UNCHANGED <<dl, dts, cd, ci>>

Count4coincReturn ==
  /\ c4.pc = "loop"
  /\ c4.j >= Len(c4.ts)
  /\ c4' = [c4 EXCEPT !.pc = "done"]
  /\ UNCHANGED <<dl, dts, cd, ci>>

Count4coincExit ==
  /\ c4.pc \in {"done", "undefined"}
  /\ c4' = Coinc4Idle
  /\ UNCHANGED <<dl, dts, cd, ci>>

-----------------------------------------------------------------------------
(* count_4coinc_indiv *)

\* the timestamps of the detections of channel ch in a stream, in stream order
RECURSIVE ChannelTimes(_, _, _)
ChannelTimes(ts, ps, ch) ==
  IF ts = <<>> THEN <<>>
  ELSE IF Bit(Head(ps), ch)
         THEN <<Head(ts)>> \o ChannelTimes(Tail(ts), Tail(ps), ch)
         ELSE ChannelTimes(Tail(ts), Tail(ps), ch)

\* the four per-channel arrays (ts1, ts2, ts3, ts4) of a stream, indexed 0..3
SplitChannels(ts, ps) == [ch \in Channels |-> ChannelTimes(ts, ps, ch)]

IndivIdle ==
  [pc |-> "idle", tss |-> [ch \in Channels |-> <<>>], coincw_ns |-> 1, total |-> 0,
   ch_counts |-> [i \in Channels |-> 0], window |-> <<>>, kept |-> <<>>,
   ch_idxs |-> [i \in Channels |-> 1], stream |-> {}, order |-> <<>>]

\* the locals of count_4coinc_indiv before its loop, the four first timestamps
\* pushed; tss[ch] is the array of channel ch (ts1..ts4)
IndivEntry(tss, coincw_ns) ==
  [pc |-> "loop", tss |-> tss, coincw_ns |-> coincw_ns, total |-> 0,
   ch_counts |-> [i \in Channels |-> 0], window |-> <<>>, kept |-> <<>>,
   ch_idxs |-> [i \in Channels |-> 1],
   stream |-> {<<At(tss[ch], 0), ch>> : ch \in Channels}, order |-> <<>>]

\* an order of the pairs by channel first and time second
PairLessByChannel(x, y) == x[2] < y[2] \/ (x[2] = y[2] /\ x[1] < y[1])

\* stream.top() of the min-heap of (time, channel) pairs ordered by std::greater
PairLess(x, y) == x[1] < y[1] \/ (x[1] = y[1] /\ x[2] < y[2])
Top(stream) == CHOOSE x \in stream : \A y \in stream : x = y \/ PairLess(x, y)

\* the flush loop of count_4coinc_indiv: the queued p is a channel id
RECURSIVE IndivFlush(_, _)
IndivFlush(fr, cutoff) ==
  IF fr.window # <<>> /\ AtOrBefore(Head(fr.window).t, cutoff)
    THEN IndivFlush([fr EXCEPT !.window = Tail(@),
                               !.ch_counts[Head(fr.window).p] = @ - 1], cutoff)
    ELSE fr

\* "Replenish stream from timestamp inputs"
IndivRefill(fr, p) ==
  LET i == fr.ch_idxs[p] IN
  IF i # Len(fr.tss[p])
    THEN [fr EXCEPT !.stream = @ \cup {<<At(fr.tss[p], i), p>>}, !.ch_idxs[p] = i + 1]
    ELSE fr

\* one iteration of `while not stream.empty()`; order lists the events popped
IndivBody(fr) ==
  LET tp == Top(fr.stream)
      t == tp[1]
      p == tp[2]
      r == IndivRefill([fr EXCEPT !.stream = @ \ {tp}, !.order = Append(@, tp)], p)
      f == IndivFlush(r, Cutoff(t, fr.coincw_ns))
  IN [f EXCEPT !.kept = f.window,
               !.total = AddInt(@, get_window4coincs(f.ch_counts, p)),
               !.pc = IF IntOverflows(f.total, get_window4coincs(f.ch_counts, p))
                        THEN "undefined" ELSE @,
               !.ch_counts[p] = @ + 1,
               !.window = Append(@, [t |-> t, p |-> p])]

RECURSIVE IndivRun(_)
IndivRun(fr) ==
  IF fr.pc # "loop" \/ fr.stream = {} THEN fr ELSE IndivRun(IndivBody(fr))

\* count_4coinc_indiv on four non-empty arrays
count_4coinc_indiv(tss, coincw_ns) == IndivRun(IndivEntry(tss, coincw_ns)).total

\* count_4coinc_indiv on the four channels of a stream, none of them empty
CallCount4coincIndiv ==
  /\ NoCall
  /\ \E length \in 0..MaxEvents :
       \E ts \in [1..length -> CoincTimes], ps \in [1..length -> Patterns],
          coincw_ns \in CoincwSet :
         /\ Asc(ts)
         /\ \A ch \in Channels : SplitChannels(ts, ps)[ch] # <<>>
         /\ ci' = IndivEntry(SplitChannels(ts, ps), coincw_ns)
  /\ UNCHANGED <<dl, dts, cd, c4>>

\* with an empty channel array `ts[0]` is read past the end of the buffer
\* (the module is compiled with boundscheck=False): undefined behaviour
CallCount4coincIndivEmpty ==
  /\ NoCall
  /\ \E length \in 0..MaxEvents :
       \E ts \in [1..length -> CoincTimes], ps \in [1..length -> Patterns],
          coincw_ns \in CoincwSet :
         /\ Asc(ts)
         /\ \E ch \in Channels : SplitChannels(ts, ps)[ch] = <<>>
         /\ ci' = [IndivIdle EXCEPT !.pc = "undefined",
                                    !.tss = SplitChannels(ts, ps),
                                    !.coincw_ns = coincw_ns]
  /\ UNCHANGED <<dl, dts, cd, c4>>

Count4coincIndivIter ==
  /\ ci.pc = "loop"
  /\ ci.stream # {}
  /\ LET g == IndivBody(ci)
     IN IF g.pc = "undefined"
          THEN \E v \in OverflowOutcomes(g.total) : ci' = [g EXCEPT !.total = v]
          ELSE ci' = g
  /\ UNCHANGED <<dl, dts, cd, c4>>

Count4coincIndivReturn ==
  /\ ci.pc = "loop"
  /\ ci.stream = {}
  /\ ci' = [ci EXCEPT !.pc = "done"]
  /\ UNCHANGED <<dl, dts, cd, c4>>

Count4coincIndivExit ==
  /\ ci.pc \in {"done", "undefined"}
  /\ ci' = IndivIdle
  /\ UNCHANGED <<dl, dts, cd, c4>>

-----------------------------------------------------------------------------
(* _cond_delta_loop and its wrapper cond_delta_loop.                         *)
(* The repository holds two texts of the function: src = "part_002" is the   *)
(* one of src/unnamed/part_002 (lines 459-539), src = "part_003" the one of  *)
(* src/unnamed/part_003 (lines 44-124), whose second pass tests its bounds   *)
(* guards with another cursor than the one it reads with.  The function is   *)
(* compiled with bounds checking on (only wraparound is switched off), so a  *)
(* read past the end of a buffer raises IndexError.                          *)

\* largest timestamp of a cond_delta_loop input
CondMaxTime == 1
\* largest length of a cond_delta_loop input array
CondMaxLen == 2

CondTimes == 0..CondMaxTime
CondSources == {"part_002", "part_003"}

CondIdle ==
  [pc |-> "idle", src |-> "part_002", t1 |-> <<>>, t2 |-> <<>>, t3 |-> <<>>,
   bins |-> 1, bin_width |-> 1, it_a |-> 0,
   idx |-> 0, idx2 |-> 0, idx3 |-> 0, idx4 |-> 0, ix |-> 0,
   histogram_ba |-> Zeros(1), histogram_ca |-> Zeros(1),
   histogram_cb |-> Zeros(1), histogram_bc |-> Zeros(1), incs |-> <<>>]

\* the locals of _cond_delta_loop before its first pass; ix is the index of
\* the signal an inner scan runs for, incs the increments made so far
CondEntry(src, t1, t2, t3, bins, bin_width) ==
  [pc |-> "passA", src |-> src, t1 |-> t1, t2 |-> t2, t3 |-> t3,
   bins |-> bins, bin_width |-> bin_width, it_a |-> 0,
   idx |-> 0, idx2 |-> 0, idx3 |-> 0, idx4 |-> 0, ix |-> 0,
   histogram_ba |-> Zeros(bins), histogram_ca |-> Zeros(bins),
   histogram_cb |-> Zeros(bins), histogram_bc |-> Zeros(bins), incs |-> <<>>]

\* `if k >= max_range: break` of the herald-to-signal differences
CondPast(k, bins, bin_width) == k >= bins * bin_width

\* `if k < 0 or k >= max_range: break` of the signal-to-signal differences
CondOutsideNoSign(k, bins, bin_width) == k >= bins * bin_width
CondOutside(k, bins, bin_width) == k < 0 \/ k >= bins * bin_width

\* an increment of one of the four histograms: h names it, a is the herald,
\* k = y - x the difference counted; it_a, ix and iy are the indices a, x and
\* y were read at
CondInc(h, a, x, y, it_a, ix, iy) ==
  [h |-> h, a |-> a, x |-> x, y |-> y, k |-> y - x, it_a |-> it_a, ix |-> ix, iy |-> iy]

\* a scan of t3 that passes over the entries earlier than the signal b
RECURSIVE CondA_t3Skip(_, _, _, _)
CondA_t3Skip(fr, a, b, it_c) ==
  IF it_c >= Len(fr.t3) THEN fr
  ELSE IF (it_c + fr.idx3) >= Len(fr.t3) THEN fr
  ELSE LET c == At(fr.t3, it_c + fr.idx3) IN
       IF c < a
         THEN CondA_t3Skip([fr EXCEPT !.idx4 = fr.idx3 + it_c], a, b, it_c + 1)
         ELSE IF c - b < 0
                THEN CondA_t3Skip(fr, a, b, it_c + 1)
                ELSE IF c - b >= fr.bins * fr.bin_width
                       THEN fr
                       ELSE CondA_t3Skip(
                              [fr EXCEPT !.histogram_cb[BinOf(c - b, fr.bin_width)] = @ + 1,
                                         !.incs = Append(@, CondInc("cb", a, b, c, fr.it_a,
                                                                    fr.ix, it_c + fr.idx3))],
                              a, b, it_c + 1)

\* first pass, `for it_c in range(l_t3)` for the herald a and the signal b
RECURSIVE CondA_t3(_, _, _, _)
CondA_t3(fr, a, b, it_c) ==
  IF it_c >= Len(fr.t3) THEN fr
  ELSE IF (it_c + fr.idx3) >= Len(fr.t3) THEN fr
  ELSE LET c == At(fr.t3, it_c + fr.idx3) IN
       IF c < a
         THEN CondA_t3([fr EXCEPT !.idx4 = fr.idx3 + it_c], a, b, it_c + 1)
         ELSE IF CondOutside(c - b, fr.bins, fr.bin_width)
                THEN fr
                ELSE CondA_t3([fr EXCEPT !.histogram_cb[BinOf(c - b, fr.bin_width)] = @ + 1,
                                         !.incs = Append(@, CondInc("cb", a, b, c, fr.it_a,
                                                                      fr.ix, it_c + fr.idx3))],
                              a, b, it_c + 1)

\* first pass, `for it_b in range(l_t2)` for the herald a
RECURSIVE CondA_t2(_, _, _)
CondA_t2(fr, a, it_b) ==
  IF it_b >= Len(fr.t2) THEN fr
  ELSE IF (it_b + fr.idx) >= Len(fr.t2) THEN fr
  ELSE LET b == At(fr.t2, it_b + fr.idx) IN
       IF b < a
         THEN CondA_t2([fr EXCEPT !.idx2 = fr.idx + it_b], a, it_b + 1)
         ELSE LET g == CondA_t3([fr EXCEPT !.idx3 = fr.idx4, !.ix = it_b + fr.idx], a, b, 0) IN
              IF CondPast(b - a, fr.bins, fr.bin_width)
                THEN g
                ELSE CondA_t2([g EXCEPT !.histogram_ba[BinOf(b - a, fr.bin_width)] = @ + 1,
                                        !.incs = Append(@, CondInc("ba", a, a, b, fr.it_a,
                                                                     fr.it_a, it_b + fr.idx))],
                              a, it_b + 1)

\* one iteration of the first `for it_a in range(l_t1)`
CondBodyA(fr) ==
  LET g == CondA_t2([fr EXCEPT !.idx = fr.idx2], At(fr.t1, fr.it_a), 0)
  IN [g EXCEPT !.it_a = @ + 1]

\* the index the second pass tests in its bounds guards before it reads
\* t3[it_c + idx] and t2[it_b + idx3]
CondB_t3Guard(fr, it_c) == IF fr.src = "part_003" THEN it_c + fr.idx3 ELSE it_c + fr.idx
CondB_t2Guard(fr, it_b) == IF fr.src = "part_003" THEN it_b + fr.idx ELSE it_b + fr.idx3

\* second pass, `for it_b in range(l_t2)` for the herald a and the signal c
RECURSIVE CondB_t2(_, _, _, _)
CondB_t2(fr, a, c, it_b) ==
  IF it_b >= Len(fr.t2) THEN fr
  ELSE IF CondB_t2Guard(fr, it_b) >= Len(fr.t2) THEN fr
  ELSE IF (it_b + fr.idx3) >= Len(fr.t2) THEN [fr EXCEPT !.pc = "raised"]
  ELSE LET b == At(fr.t2, it_b + fr.idx3) IN
       IF b < a
         THEN CondB_t2([fr EXCEPT !.idx4 = fr.idx3 + it_b], a, c, it_b + 1)
         ELSE IF CondOutside(b - c, fr.bins, fr.bin_width)
                THEN fr
                ELSE CondB_t2([fr EXCEPT !.histogram_bc[BinOf(b - c, fr.bin_width)] = @ + 1,
                                         !.incs = Append(@, CondInc("bc", a, c, b, fr.it_a,
                                                                      fr.ix, it_b + fr.idx3))],
                              a, c, it_b + 1)

\* second pass, `for it_c in range(l_t3)` for the herald a
RECURSIVE CondB_t3(_, _, _)
CondB_t3(fr, a, it_c) ==
  IF it_c >= Len(fr.t3) THEN fr
  ELSE IF CondB_t3Guard(fr, it_c) >= Len(fr.t3) THEN fr
  ELSE IF (it_c + fr.idx) >= Len(fr.t3) THEN [fr EXCEPT !.pc = "raised"]
  ELSE LET c == At(fr.t3, it_c + fr.idx) IN
       IF c < a
         THEN CondB_t3([fr EXCEPT !.idx2 = fr.idx + it_c], a, it_c + 1)
         ELSE LET g == CondB_t2([fr EXCEPT !.idx3 = fr.idx4, !.ix = it_c + fr.idx], a, c, 0) IN
              IF g.pc = "raised" THEN g
              ELSE IF CondPast(c - a, fr.bins, fr.bin_width)
                THEN g
                ELSE CondB_t3([g EXCEPT !.histogram_ca[BinOf(c - a, fr.bin_width)] = @ + 1,
                                        !.incs = Append(@, CondInc("ca", a, a, c, fr.it_a,
                                                                     fr.it_a, it_c + fr.idx))],
                              a, it_c + 1)

\* one iteration of the second `for it_a in range(l_t1)`
CondBodyB(fr) ==
  LET g == CondB_t3([fr EXCEPT !.idx = fr.idx2], At(fr.t1, fr.it_a), 0)
  IN IF g.pc = "raised" THEN g ELSE [g EXCEPT !.it_a = @ + 1]

\* `idx2 = 0; idx4 = 0` between the passes (idx and idx3 keep their values)
CondBetween(fr) == [fr EXCEPT !.pc = "passB", !.it_a = 0, !.idx2 = 0, !.idx4 = 0]

\* the whole of _cond_delta_loop: the frame at the return or at the exception
RECURSIVE CondRun(_)
CondRun(fr) ==
  IF fr.pc = "passA"
    THEN IF fr.it_a < Len(fr.t1) THEN CondRun(CondBodyA(fr)) ELSE CondRun(CondBetween(fr))
  ELSE IF fr.pc = "passB"
    THEN IF fr.it_a < Len(fr.t1) THEN CondRun(CondBodyB(fr))
         ELSE [fr EXCEPT !.pc = "done"]
  ELSE fr

\* what a call gives back: the four histograms, or the exception
CondResult(fr) ==
  IF fr.pc = "done"
    THEN <<fr.histogram_ba, fr.histogram_ca, fr.histogram_cb, fr.histogram_bc>>
    ELSE <<"IndexError">>

_cond_delta_loop(src, t1, t2, t3, bins, bin_width) ==
  CondResult(CondRun(CondEntry(src, t1, t2, t3, bins, bin_width)))

CallCondDeltaLoop ==
  /\ NoCall
  /\ \E l_t1 \in 0..CondMaxLen, l_t2 \in 0..CondMaxLen, l_t3 \in 0..CondMaxLen :
       \E src \in CondSources, t1 \in [1..l_t1 -> CondTimes],
          t2 \in [1..l_t2 -> CondTimes], t3 \in [1..l_t3 -> CondTimes],
          bins \in BinsSet, bin_width \in WidthSet :
         /\ Asc(t1) /\ Asc(t2) /\ Asc(t3)
         /\ cd' = CondEntry(src, t1, t2, t3, bins, bin_width)
  /\ UNCHANGED <<dl, dts, c4, ci>>

CondPassAIter ==
  /\ cd.pc = "passA"
  /\ cd.it_a < Len(cd.t1)
  /\ cd' = CondBodyA(cd)
  /\ UNCHANGED <<dl, dts, c4, ci>>

CondPassAEnd ==
  /\ cd.pc = "passA"
  /\ cd.it_a >= Len(cd.t1)
  /\ cd' = CondBetween(cd)
  /\ UNCHANGED <<dl, dts, c4, ci>>

CondPassBIter ==
  /\ cd.pc = "passB"
  /\ cd.it_a < Len(cd.t1)
  /\ cd' = CondBodyB(cd)
  /\ UNCHANGED <<dl, dts, c4, ci>>

CondReturn ==
  /\ cd.pc = "passB"
  /\ cd.it_a >= Len(cd.t1)
  /\ cd' = [cd EXCEPT !.pc = "done"]
  /\ UNCHANGED <<dl, dts, c4, ci>>

CondExit ==
  /\ cd.pc \in {"done", "raised"}
  /\ cd' = CondIdle
  /\ UNCHANGED <<dl, dts, c4, ci>>

-----------------------------------------------------------------------------
(* Specifications *)

Init ==
  /\ dl = DeltaIdle
  /\ dts = TsIdle
  /\ cd = CondIdle
  /\ c4 = Coinc4Idle
  /\ ci = IndivIdle

NextDelta ==
  \/ CallDeltaLoop
  \/ CallDeltaLoopEmpty
  \/ DeltaLoopIter
  \/ DeltaLoopReturn
  \/ DeltaLoopExit
  \/ CallDeltaLoopTs
  \/ DeltaLoopTsIter
  \/ DeltaLoopTsReturn
  \/ DeltaLoopTsExit

SpecDelta == Init /\ [][NextDelta]_vars

NextCoinc ==
  \/ CallCount4coinc
  \/ Count4coincIter
  \/ Count4coincReturn
  \/ Count4coincExit
  \/ CallCount4coincIndiv
  \/ CallCount4coincIndivEmpty
  \/ Count4coincIndivIter
  \/ Count4coincIndivReturn
  \/ Count4coincIndivExit

SpecCoinc == Init /\ [][NextCoinc]_vars

NextCond ==
  \/ CallCondDeltaLoop
  \/ CondPassAIter
  \/ CondPassAEnd
  \/ CondPassBIter
  \/ CondReturn
  \/ CondExit

SpecCond == Init /\ [][NextCond]_vars

NextHist ==
  \/ NextDelta
  \/ NextCond

SpecHist == Init /\ [][NextHist]_vars

Next ==
  \/ NextDelta
  \/ NextCond
  \/ NextCoinc

Spec == Init /\ [][Next]_vars

-----------------------------------------------------------------------------
(* Reference definitions for the histograms *)

\* 1-based position of the earliest stop >= b in t2, 0 when there is none
FirstStop(t2, b) ==
  LET S == {j \in 1..Len(t2) : t2[j] >= b}
  IN IF S = {} THEN 0 ELSE CHOOSE j \in S : \A m \in S : j <= m

\* nearest-causal-match reference: per start only the earliest stop >= start
NearestHist(t1, t2, bins, bin_width) ==
  [x \in 0..(bins - 1) |->
     Cardinality({i \in 1..Len(t1) :
        LET j == FirstStop(t2, t1[i])
        IN /\ j # 0
           /\ t2[j] - t1[i] < bins * bin_width
           /\ (t2[j] - t1[i]) \div bin_width = x})]

\* the stops counted for start t1[i] when every stop from the earliest one
\* >= start onwards is counted as long as it lies inside the window
WindowStops(t1, t2, i, bins, bin_width) ==
  LET f == FirstStop(t2, t1[i])
  IN IF f = 0 THEN {}
     ELSE {j \in f..Len(t2) : \A m \in f..j : t2[m] - t1[i] < bins * bin_width}

\* every-stop-in-window reference
WindowHist(t1, t2, bins, bin_width) ==
  [x \in 0..(bins - 1) |->
     Cardinality({p \in (1..Len(t1)) \X (1..Len(t2)) :
        /\ p[2] \in WindowStops(t1, t2, p[1], bins, bin_width)
        /\ (t2[p[2]] - t1[p[1]]) \div bin_width = x})]

\* number of causally-forward pairs (stop not before start)
ForwardPairs(t1, t2) ==
  Cardinality({p \in (1..Len(t1)) \X (1..Len(t2)) : t2[p[2]] >= t1[p[1]]})

-----------------------------------------------------------------------------
(* Properties of delta_loop and delta_loop_ts *)

\* C1 as stated: for ascending t1 and t2 delta_loop returns the histogram of
\* the nearest-causal-match reference (only the earliest stop >= start is
\* counted, once, iff inside the window), so sum(histogram) <= len(t1)
C1_NearestMatchOnly ==
  (dl.pc = "done" /\ Asc(dl.t1) /\ Asc(dl.t2)) =>
     /\ dl.histogram = NearestHist(dl.t1, dl.t2, dl.bins, dl.bin_width)
     /\ HistSum(dl.histogram) <= Len(dl.t1)

\* C1 amended: for ascending t1 and t2 delta_loop returns the histogram of
\* the brute-force reference that counts, for each start, every stop >= start
\* that lies inside the window (the earliest one and the later ones), each in
\* bin floor(dt / bin_width); sum(histogram) is at most the number of
\* causally-forward pairs and may exceed len(t1)
C1_EveryStopInWindow ==
  (dl.pc = "done" /\ Asc(dl.t1) /\ Asc(dl.t2)) =>
     /\ dl.histogram = WindowHist(dl.t1, dl.t2, dl.bins, dl.bin_width)
     /\ HistSum(dl.histogram) <= ForwardPairs(dl.t1, dl.t2)

\* a finished call in which some start counted more than one stop
C1_Witness ==
  /\ dl.pc = "done"
  /\ Asc(dl.t1) /\ Asc(dl.t2)
  /\ HistSum(dl.histogram) > Len(dl.t1)
  /\ \E a \in 1..Len(dl.incs), b \in 1..Len(dl.incs) :
        a # b /\ dl.incs[a].i = dl.incs[b].i

\* C6: for all inputs, the histogram delta_loop_ts returns is the histogram
\* a call of delta_loop returns on the same t1, t2, bins and bin_width
C6_TsHistogramIsDeltaLoop ==
  dts.pc = "done" =>
     delta_loop(dts.t1s, dts.t2s, dts.bins_len, dts.bin_width) =
        [histogram |-> dts.histogram]

\* the starts / stops for which delta_loop_ts recorded an increment
TsIncStarts == {dts.incs[a].i : a \in 1..Len(dts.incs)}
TsIncStops == {dts.incs[a].j : a \in 1..Len(dts.incs)}

\* C7: mask1 has len(t1) entries and mask2 len(t2); mask1[i] (mask2[j]) is
\* true iff at least one histogram increment was made for a pair (i, j); for
\* ascending inputs these are the timestamps with a partner inside the window
C7_MasksMarkIncrements ==
  dts.pc = "done" =>
     LET m1 == AsBool(dts.mask1)
         m2 == AsBool(dts.mask2)
         mr == dts.bins_len * dts.bin_width
     IN /\ DOMAIN m1 = 1..Len(dts.t1s)
        /\ DOMAIN m2 = 1..Len(dts.t2s)
        /\ \A i \in DOMAIN m1 : m1[i] <=> (i - 1) \in TsIncStarts
        /\ \A j \in DOMAIN m2 : m2[j] <=> (j - 1) \in TsIncStops
        /\ HistSum(dts.histogram) = Len(dts.incs)
        /\ (Asc(dts.t1s) /\ Asc(dts.t2s)) =>
             /\ \A i \in DOMAIN m1 : m1[i] <=>
                  \E j \in DOMAIN m2 : dts.t2s[j] >= dts.t1s[i] /\ dts.t2s[j] - dts.t1s[i] < mr
             /\ \A j \in DOMAIN m2 : m2[j] <=>
                  \E i \in DOMAIN m1 : dts.t2s[j] >= dts.t1s[i] /\ dts.t2s[j] - dts.t1s[i] < mr

\* a finished call whose masks hold both a true and a false entry each
C7_Witness ==
  /\ dts.pc = "done"
  /\ \E i \in DOMAIN dts.mask1, j \in DOMAIN dts.mask1 : dts.mask1[i] = 1 /\ dts.mask1[j] = 0
  /\ \E i \in DOMAIN dts.mask2, j \in DOMAIN dts.mask2 : dts.mask2[i] = 1 /\ dts.mask2[j] = 0

\* the increments delta_loop made for start i (0-based)
DeltaIncsOf(i) == {a \in 1..Len(dl.incs) : dl.incs[a].i = i}

\* C9: with t2[j] the earliest stop >= t1[i]: dt = bins*bin_width increments
\* no bin for that start; dt = bins*bin_width - 1 increments the last bin;
\* dt = 0 increments bin 0
C9_WindowBoundary ==
  (dl.pc = "done" /\ Asc(dl.t1) /\ Asc(dl.t2)) =>
     \A i \in 1..Len(dl.t1) :
        LET j == FirstStop(dl.t2, dl.t1[i])
            dt == dl.t2[j] - dl.t1[i]
            mr == dl.bins * dl.bin_width
        IN j # 0 =>
             /\ dt = mr => DeltaIncsOf(i - 1) = {}
             /\ dt = mr - 1 =>
                  /\ \E a \in DeltaIncsOf(i - 1) : dl.incs[a].j = j - 1 /\ dl.incs[a].k = dt
                  /\ dl.histogram[dl.bins - 1] >= 1
                  /\ BinOf(dt, dl.bin_width) = dl.bins - 1
             /\ dt = 0 =>
                  /\ \E a \in DeltaIncsOf(i - 1) : dl.incs[a].j = j - 1 /\ dl.incs[a].k = 0
                  /\ dl.histogram[0] >= 1

\* a finished call with one start whose earliest stop is exactly at the window
\* edge, one a unit inside it and one at dt = 0
C9_Witness ==
  /\ dl.pc = "done"
  /\ Asc(dl.t1) /\ Asc(dl.t2)
  /\ LET mr == dl.bins * dl.bin_width
         D == {dl.t2[FirstStop(dl.t2, dl.t1[i])] - dl.t1[i] :
                 i \in {x \in 1..Len(dl.t1) : FirstStop(dl.t2, dl.t1[x]) # 0}}
     IN mr \in D /\ (mr - 1) \in D /\ 0 \in D /\ mr > 1

-----------------------------------------------------------------------------
(* Properties of count_4coinc and count_4coinc_indiv *)

\* the number of 4-tuples of detections, one from each of the channels 0..3,
\* whose latest and earliest timestamps differ by less than coincw_ns
TrueCount(ts, ps, coincw_ns) ==
  Cardinality({q \in [Channels -> 1..Len(ts)] :
     /\ \A ch \in Channels : Bit(ps[q[ch]], ch)
     /\ \A a \in Channels, b \in Channels : ts[q[a]] - ts[q[b]] < coincw_ns})

\* C2: on every ascending stream and for every coincw_ns > 0 count_4coinc
\* returns the number of 4-tuples of detections, one per channel, that lie
\* within less than coincw_ns of each other, also for timestamps < coincw_ns
C2_CountsAllFourfolds ==
  c4.pc = "done" => c4.total = TrueCount(c4.ts, c4.ps, c4.coincw_ns)

\* C3: count_4coinc on the interleaved stream and count_4coinc_indiv on the
\* same detections split into four per-channel arrays return the same total
C3_StreamEqualsIndiv ==
  (c4.pc = "done" /\ \A ch \in Channels : SplitChannels(c4.ts, c4.ps)[ch] # <<>>) =>
     c4.total = count_4coinc_indiv(SplitChannels(c4.ts, c4.ps), c4.coincw_ns)

\* the number of entries of the sequence q whose time is t
TimesAt(q, t) == Cardinality({a \in 1..Len(q) : q[a].t = t})

\* the eviction boundary after an event at time t was processed: prior lists
\* the times of the events processed before it, kept the window its
\* coincidences were counted against
BoundaryOk(t, prior, kept, coincw_ns) ==
  /\ \A a \in 1..Len(kept) : ~(kept[a].t <= t - coincw_ns)
  /\ \A a \in 1..Len(kept) : t - kept[a].t # coincw_ns
  /\ TimesAt(kept, t - (coincw_ns - 1)) =
       Cardinality({a \in 1..Len(prior) : prior[a] = t - (coincw_ns - 1)})

\* C10: when an event at time t is processed, every queued event with time
\* <= t - coincw_ns is evicted before the coincidences are counted, and the
\* events at t - (coincw_ns - 1) are still queued: detections coincw_ns apart are
\* never counted together, detections coincw_ns - 1 apart are
C10_EvictionBoundary ==
  /\ (c4.pc \in {"loop", "done"} /\ c4.j > 0) =>
        BoundaryOk(At(c4.ts, c4.j - 1), SubSeq(c4.ts, 1, c4.j - 1), c4.kept, c4.coincw_ns)
  /\ (ci.pc \in {"loop", "done"} /\ ci.order # <<>>) =>
        LET n == Len(ci.order)
        IN BoundaryOk(ci.order[n][1], [a \in 1..(n - 1) |-> ci.order[a][1]],
                      ci.kept, ci.coincw_ns)

-----------------------------------------------------------------------------
(* Properties of cond_delta_loop *)

\* C4: a difference c-b is recorded in H_cb for a herald a only when both
\* signals qualify for a, 0 <= b-a < bins*bin_width and 0 <= c-a <
\* bins*bin_width; likewise b-c in H_bc
C4_BothSignalsQualify ==
  \A n \in 1..Len(cd.incs) :
     LET e == cd.incs[n]
         mr == cd.bins * cd.bin_width
     IN e.h \in {"cb", "bc"} =>
          /\ 0 <= e.x - e.a /\ e.x - e.a < mr
          /\ 0 <= e.y - e.a /\ e.y - e.a < mr

\* C5: the second pass does not depend on what the first pass left in the
\* cursors: cond_delta_loop(t1, t3, t2) is cond_delta_loop(t1, t2, t3) with
\* H_ba and H_ca exchanged and H_cb and H_bc exchanged
C5_PassesIndependent ==
  cd.pc = "done" =>
     LET r == CondResult(cd)
         q == _cond_delta_loop(cd.src, cd.t1, cd.t3, cd.t2, cd.bins, cd.bin_width)
     IN q = <<r[2], r[1], r[4], r[3]>>

-----------------------------------------------------------------------------
(* Properties of every histogram *)

\* the number of logged increments of the differences that fall in bin x
Tally(incs, bin_width, x) ==
  Cardinality({n \in 1..Len(incs) : BinOf(incs[n].k, bin_width) = x})

\* h has exactly bins entries, none negative, and each entry counts the
\* logged increments of its bin, all made for 0 <= dt < bins*bin_width
HistogramOk(h, incs, bins, bin_width) ==
  /\ DOMAIN h = 0..(bins - 1)
  /\ \A x \in DOMAIN h : h[x] >= 0 /\ h[x] = Tally(incs, bin_width, x)
  /\ \A n \in 1..Len(incs) :
        /\ 0 <= incs[n].k
        /\ incs[n].k < bins * bin_width
        /\ BinOf(incs[n].k, bin_width) \in 0..(bins - 1)

\* the increments of cond_delta_loop made in the histogram named h
CondIncs(h) == SelectSeq(cd.incs, LAMBDA e : e.h = h)

\* C8: in delta_loop, delta_loop_ts and the four histograms of
\* cond_delta_loop every increment is made for 0 <= dt < bins*bin_width, at
\* index floor(dt/bin_width) in [0, bins-1], and the array has exactly bins
\* non-negative entries
C8_IncrementsInsideWindow ==
  /\ HistogramOk(dl.histogram, dl.incs, dl.bins, dl.bin_width)
  /\ HistogramOk(dts.histogram, dts.incs, dts.bins_len, dts.bin_width)
  /\ HistogramOk(cd.histogram_ba, CondIncs("ba"), cd.bins, cd.bin_width)
  /\ HistogramOk(cd.histogram_ca, CondIncs("ca"), cd.bins, cd.bin_width)
  /\ HistogramOk(cd.histogram_cb, CondIncs("cb"), cd.bins, cd.bin_width)
  /\ HistogramOk(cd.histogram_bc, CondIncs("bc"), cd.bins, cd.bin_width)

\* a finished cond_delta_loop call that counted in all four histograms, once
\* in the last of several bins, and skipped a signal pair in the wrong order
C8_Witness ==
  /\ cd.pc = "done"
  /\ cd.bins > 1
  /\ \A h \in {"ba", "ca", "cb", "bc"} : CondIncs(h) # <<>>
  /\ \E n \in 1..Len(cd.incs) : BinOf(cd.incs[n].k, cd.bin_width) = cd.bins - 1
  /\ \E i \in 1..Len(cd.t2), j \in 1..Len(cd.t3) : cd.t3[j] < cd.t2[i]

-----------------------------------------------------------------------------
(* Empty inputs of delta_loop *)

\* C11: if t1 or t2 (or both) is empty, a call of delta_loop completes without
\* error and returns a histogram of bins entries, all zero
C11_EmptyGivesZeros ==
  (dl.pc \in {"done", "raised"} /\ (dl.t1 = <<>> \/ dl.t2 = <<>>)) =>
     /\ dl.pc = "done"
     /\ dl.histogram = Zeros(dl.bins)

-----------------------------------------------------------------------------
(* Calls with a non-positive bins, bin_width_ns or coincw_ns.                *)
(* No function tests its configuration: the only error such a call meets is  *)
(* the ValueError of np.zeros(bins) for a negative bins.                     *)

ConfigBins == {-1, 0, 1}
ConfigWidths == {-1, 0, 1}
ConfigCoincw == {-1, 0}

\* delta_loop with bins <= 0 or bin_width_ns <= 0: an empty t1 raises
\* IndexError in the wrapper, a negative bins raises ValueError in
\* `np.zeros(bins, dtype=DTYPE)`, every other call enters the loop
CallDeltaLoopConfig ==
  /\ NoCall
  /\ \E l_t1 \in 0..MaxLen, l_t2 \in 0..MaxLen :
       \E t1 \in [1..l_t1 -> Times], t2 \in [1..l_t2 -> Times],
          bins \in ConfigBins, bin_width \in ConfigWidths :
         /\ IsHistInput(t1) /\ IsHistInput(t2)
         /\ bins <= 0 \/ bin_width <= 0
         /\ dl' = IF t1 = <<>> \/ bins < 0
                    THEN [DeltaEntry(t1, t2, bins, bin_width) EXCEPT !.pc = "raised"]
                    ELSE DeltaEntry(t1, t2, bins, bin_width)
  /\ UNCHANGED <<dts, cd, c4, ci>>

\* count_4coinc with coincw_ns <= 0: the loop is entered as for any other value
CallCount4coincConfig ==
  /\ NoCall
  /\ \E length \in 0..MaxEvents :
       \E ts \in [1..length -> CoincTimes], ps \in [1..length -> Patterns],
          coincw_ns \in ConfigCoincw :
         /\ Asc(ts)
         /\ c4' = Coinc4Entry(ts, ps, coincw_ns)
  /\ UNCHANGED <<dl, dts, cd, ci>>

NextConfig ==
  \/ CallDeltaLoopConfig
  \/ DeltaLoopIter
  \/ DeltaLoopReturn
  \/ DeltaLoopExit
  \/ CallCount4coincConfig
  \/ Count4coincIter
  \/ Count4coincReturn
  \/ Count4coincExit

SpecConfig == Init /\ [][NextConfig]_vars

\* C12: a call of delta_loop with bins <= 0 or bin_width_ns <= 0, and a call
\* of count_4coinc with coincw_ns <= 0, fails with an error raised at entry:
\* it never enters its loop and never returns a histogram or a count
C12_ConfigRejected ==
  /\ (dl.bins <= 0 \/ dl.bin_width <= 0) => dl.pc = "raised"
  /\ c4.coincw_ns <= 0 => c4.pc = "raised"

-----------------------------------------------------------------------------
(* The width of the coincidence total: count_4coinc on a burst, a stream of  *)
(* events that all carry the four channels and all have the same time        *)

\* the number of events of the longest burst
BurstLen == 216
\* the time of the events of a burst
BurstTime == 1

\* the ull x times the small number m (m < 2^15)
MulULL(x, m) ==
  LET p0 == x[4] * m
      p1 == x[3] * m + (p0 \div Limb)
      p2 == x[2] * m + (p1 \div Limb)
      p3 == x[1] * m + (p2 \div Limb)
  IN <<p3 % Limb, p2 % Limb, p1 % Limb, p0 % Limb>>

\* the number of 4-tuples, one detection per channel, of a burst of n events: n^4
BurstTrueCount(n) == MulULL(MulULL(MulULL(ToULL(n), n), n), n)

\* the stream of the frame is a burst inside one coincidence window
IsBurst(fr) ==
  /\ fr.ts # <<>>
  /\ \A i \in 1..Len(fr.ts) : fr.ts[i] = BurstTime /\ fr.ps[i] = 15
  /\ fr.coincw_ns = 1

CallCount4coincBurst ==
  /\ NoCall
  /\ \E length \in {BurstLen - 1, BurstLen} :
       c4' = Coinc4Entry([i \in 1..length |-> BurstTime], [i \in 1..length |-> 15], 1)
  /\ UNCHANGED <<dl, dts, cd, ci>>

NextWidth ==
  \/ CallCount4coincBurst
  \/ Count4coincIter
  \/ Count4coincReturn
  \/ Count4coincExit

SpecWidth == Init /\ [][NextWidth]_vars

\* C13: the total is accumulated in 64 bits: whenever the true number of
\* 4-fold coincidences is below 2^63 the value count_4coinc ends with equals
\* it, with no wrap-around at 2^31 (here for a burst of n events, n^4 4-tuples)
C13_TotalIs64Bit ==
  (c4.pc \in {"done", "undefined"} /\ IsBurst(c4)) =>
     /\ c4.pc = "done"
     /\ c4.total >= 0
     /\ ToULL(c4.total) = BurstTrueCount(Len(c4.ts))

-----------------------------------------------------------------------------
(* Termination of count_4coinc_indiv *)

\* the number of events popped from the merge queue that belong to channel ch
\* and have time t
PoppedAt(order, ch, t) == Cardinality({a \in 1..Len(order) : order[a] = <<t, ch>>})

\* C14: count_4coinc_indiv terminates for every input of four ascending
\* channel arrays, also with empty ones: no channel is read past its end, and
\* at the return every timestamp of every channel has been popped exactly
\* once, len(ts1)+len(ts2)+len(ts3)+len(ts4) pops in all
C14_IndivReadsWhatRemains ==
  /\ ci.pc # "undefined"
  /\ ci.pc = "done" =>
       /\ Len(ci.order) =
            Len(ci.tss[0]) + Len(ci.tss[1]) + Len(ci.tss[2]) + Len(ci.tss[3])
       /\ \A ch \in Channels : \A t \in CoincTimes :
            PoppedAt(ci.order, ch, t) =
              Cardinality({a \in 1..Len(ci.tss[ch]) : ci.tss[ch][a] = t})

-----------------------------------------------------------------------------
(* Splitting the starts of delta_loop *)

\* the call returned a histogram
Returned(r) == "histogram" \in DOMAIN r

\* C15: for ascending t1 and t2 and every split index k in 0..len(t1),
\* delta_loop(t1, t2) is the element-wise sum of delta_loop(t1[0:k], t2) and
\* delta_loop(t1[k:], t2), each run with a fresh cursor
C15_SplitSum ==
  (dl.pc = "done" /\ Asc(dl.t1) /\ Asc(dl.t2)) =>
     \A k \in 0..Len(dl.t1) :
        LET l == delta_loop(SubSeq(dl.t1, 1, k), dl.t2, dl.bins, dl.bin_width)
            r == delta_loop(SubSeq(dl.t1, k + 1, Len(dl.t1)), dl.t2, dl.bins, dl.bin_width)
        IN /\ Returned(l)
           /\ Returned(r)
           /\ dl.histogram = [x \in 0..(dl.bins - 1) |-> l.histogram[x] + r.histogram[x]]

-----------------------------------------------------------------------------
(* Calls are independent of each other and leave their inputs alone *)

\* C16: two calls of the same function with identical inputs give identical
\* outputs, whatever calls were made before: the outcome of every call that
\* ends (a result or an exception) is the one a first call on the same
\* arguments computes from freshly created cursors, window and counts
C16_OutcomeDependsOnInputsOnly ==
  /\ dl.pc = "done" =>
       delta_loop(dl.t1, dl.t2, dl.bins, dl.bin_width) = [histogram |-> dl.histogram]
  /\ dl.pc = "raised" => ~Returned(delta_loop(dl.t1, dl.t2, dl.bins, dl.bin_width))
  /\ dts.pc = "done" =>
       _delta_loop_ts(dts.t1s, dts.t2s, dts.bins_len, dts.bin_width) =
          <<dts.histogram, AsBool(dts.mask1), AsBool(dts.mask2)>>
  /\ cd.pc \in {"done", "raised"} =>
       _cond_delta_loop(cd.src, cd.t1, cd.t2, cd.t3, cd.bins, cd.bin_width) = CondResult(cd)
  /\ c4.pc = "done" => count_4coinc(c4.ts, c4.ps, c4.coincw_ns) = c4.total
  /\ ci.pc = "done" => count_4coinc_indiv(ci.tss, ci.coincw_ns) = ci.total

\* a finished delta_loop call that counted a coincidence and ended with its
\* cursor moved away from 0
C16_Witness ==
  /\ dl.pc = "done"
  /\ dl.idx2 > 0
  /\ dl.incs # <<>>

\* C17: no function writes to its input sequences: from the entry of a call to
\* its end the timestamp and pattern arrays it was given keep their values
C17_InputsNotWritten ==
  [][/\ dl.pc = "loop" => (dl'.t1 = dl.t1 /\ dl'.t2 = dl.t2)
     /\ dts.pc = "loop" => (dts'.t1s = dts.t1s /\ dts'.t2s = dts.t2s)
     /\ cd.pc \in {"passA", "passB"} =>
          (cd'.t1 = cd.t1 /\ cd'.t2 = cd.t2 /\ cd'.t3 = cd.t3)
     /\ c4.pc = "loop" => (c4'.ts = c4.ts /\ c4'.ps = c4.ps)
     /\ ci.pc = "loop" => ci'.tss = ci.tss]_vars

\* a finished delta_loop_ts call that wrote to both of its masks
C17_Witness ==
  /\ dts.pc = "done"
  /\ \E i \in DOMAIN dts.mask1 : dts.mask1[i] = 1
  /\ \E j \in DOMAIN dts.mask2 : dts.mask2[j] = 1
  /\ dts.incs # <<>>

-----------------------------------------------------------------------------
(* delta_loop as the histogram of all pairs inside the window *)

\* the number of index pairs (i, j) with 0 <= t2[j] - t1[i] < bins*bin_width
\* whose difference falls in bin x
AllPairsHist(t1, t2, bins, bin_width) ==
  [x \in 0..(bins - 1) |->
     Cardinality({p \in (1..Len(t1)) \X (1..Len(t2)) :
        /\ 0 <= t2[p[2]] - t1[p[1]]
        /\ t2[p[2]] - t1[p[1]] < bins * bin_width
        /\ (t2[p[2]] - t1[p[1]]) \div bin_width = x})]

\* C18: for ascending t1 and t2, histogram[k] returned by delta_loop is the
\* number of index pairs (i, j) with 0 <= t2[j]-t1[i] < bins*bin_width and
\* floor((t2[j]-t1[i])/bin_width) = k: every stop inside a start's window is
\* counted for that start, once for each start whose window contains it
C18_AllPairsInWindow ==
  (dl.pc = "done" /\ Asc(dl.t1) /\ Asc(dl.t2)) =>
     /\ dl.histogram = AllPairsHist(dl.t1, dl.t2, dl.bins, dl.bin_width)
     /\ \A i \in 1..Len(dl.t1), j \in 1..Len(dl.t2) :
          (0 <= dl.t2[j] - dl.t1[i] /\ dl.t2[j] - dl.t1[i] < dl.bins * dl.bin_width) =>
             Cardinality({a \in 1..Len(dl.incs) :
                            dl.incs[a].i = i - 1 /\ dl.incs[a].j = j - 1}) = 1

\* a finished call in which one stop was counted for two different starts
C18_Witness ==
  /\ dl.pc = "done"
  /\ Asc(dl.t1) /\ Asc(dl.t2)
  /\ \E a \in 1..Len(dl.incs), b \in 1..Len(dl.incs) :
        dl.incs[a].j = dl.incs[b].j /\ dl.incs[a].i # dl.incs[b].i

-----------------------------------------------------------------------------
(* The herald-to-signal histograms of cond_delta_loop *)

\* C19: for ascending inputs the first output H_ba of cond_delta_loop(t1, t2,
\* t3) is what delta_loop(t1, t2) returns, for every t3, and the second output
\* H_ca is what delta_loop(t1, t3) returns, for every t2
C19_HeraldHistogramsAreDeltaLoop ==
  (cd.pc = "done" /\ cd.src = "part_002") =>
     /\ delta_loop(cd.t1, cd.t2, cd.bins, cd.bin_width) = [histogram |-> cd.histogram_ba]
     /\ delta_loop(cd.t1, cd.t3, cd.bins, cd.bin_width) = [histogram |-> cd.histogram_ca]

-----------------------------------------------------------------------------
(* Events earlier than one coincidence window *)

\* C20: when the time t of the event being processed is smaller than
\* coincw_ns no queued event is evicted: on an ascending stream every event
\* processed so far is then still queued
C20_NoEvictionBeforeFirstWindow ==
  /\ (c4.pc \in {"loop", "done"} /\ c4.j > 0 /\ At(c4.ts, c4.j - 1) < c4.coincw_ns) =>
        /\ Len(c4.window) = c4.j
        /\ Len(c4.kept) = c4.j - 1
  /\ (ci.pc \in {"loop", "done"} /\ ci.order # <<>>
         /\ ci.order[Len(ci.order)][1] < ci.coincw_ns) =>
        /\ Len(ci.window) = Len(ci.order)
        /\ Len(ci.kept) = Len(ci.order) - 1

-----------------------------------------------------------------------------
(* The additions count_4coinc makes for one event *)

\* the counts as the flush left them plus the bits of p below bit i
CountsBelow(base, p, i) ==
  [c \in Channels |-> IF c < i /\ Bit(p, c) THEN base[c] + 1 ELSE base[c]]

\* the pattern of the event processed last
LastPattern == At(c4.ps, c4.j - 1)

\* C21 as stated: the amount added for every set bit i of the event is the
\* product of the other three channels' active counts as they are before any
\* bit of this event has been added
C21_CountsBeforeAnyBit ==
  (c4.pc \in {"loop", "done"} /\ c4.j > 0) =>
     \A a \in 1..Len(c4.adds) :
        c4.adds[a].x = get_window4coincs(c4.base, c4.adds[a].i)

\* C21 amended: one addition is made for every set bit i of the event, in
\* ascending order of i, and it is the product of the other three channels'
\* active counts as they are after the event's own lower bits have been
\* added: bit i is added to its count right after its addition, before the
\* next bit is counted; after the last bit the event is pushed onto the queue
C21_CountsAfterLowerBits ==
  (c4.pc \in {"loop", "done"} /\ c4.j > 0) =>
     /\ Len(c4.adds) = Cardinality({i \in Channels : Bit(LastPattern, i)})
     /\ \A a \in 1..Len(c4.adds) :
          /\ Bit(LastPattern, c4.adds[a].i)
          /\ a > 1 => c4.adds[a - 1].i < c4.adds[a].i
          /\ c4.adds[a].counts = CountsBelow(c4.base, LastPattern, c4.adds[a].i)
          /\ c4.adds[a].x = get_window4coincs(c4.adds[a].counts, c4.adds[a].i)
     /\ c4.ch_counts = CountsBelow(c4.base, LastPattern, 4)
     /\ c4.window = Append(c4.kept, [t |-> At(c4.ts, c4.j - 1), p |-> LastPattern])

\* an event with several bits was processed and one of its additions counted
\* a lower bit of the same event
C21_Witness ==
  /\ c4.pc \in {"loop", "done"} /\ c4.j > 0
  /\ Len(c4.adds) > 1
  /\ \E a \in 1..Len(c4.adds) :
        /\ c4.adds[a].x > 0
        /\ c4.adds[a].x # get_window4coincs(c4.base, c4.adds[a].i)

-----------------------------------------------------------------------------
(* The reads of cond_delta_loop *)

\* C22: in both passes of cond_delta_loop, for all inputs, every read of t2
\* uses an index smaller than len(t2) and every read of t3 an index smaller
\* than len(t3): no call ends with the IndexError of a read past the end
C22_ReadsInBounds == cd.pc # "raised"

-----------------------------------------------------------------------------
(* The signal-after-signal histogram of the first pass *)

\* the indices (0-based) of the t3 entries for which the first pass counted
\* in H_cb for the herald t1[ia] and the signal t2[ib]
CbCounted(ia, ib) ==
  {cd.incs[n].iy : n \in {m \in 1..Len(cd.incs) :
       cd.incs[m].h = "cb" /\ cd.incs[m].it_a = ia /\ cd.incs[m].ix = ib}}

\* the t3 indices (0-based) from the first entry >= a onwards, as long as
\* every entry from there on has 0 <= c - b < bins*bin_width
CbRun(a, b) ==
  LET f == FirstStop(cd.t3, a)
  IN IF f = 0 THEN {}
     ELSE {j - 1 : j \in {m \in f..Len(cd.t3) : \A q \in f..m :
              0 <= cd.t3[q] - b /\ cd.t3[q] - b < cd.bins * cd.bin_width}}

\* C23: in the first pass, for a herald a and a signal b >= a, counts are
\* added to H_cb only for t3 entries c taken consecutively from the first t3
\* entry >= a, each with 0 <= c-b < bins*bin_width and each once; when that
\* first entry is earlier than b nothing is recorded for (a, b), whatever
\* lies in the window after b; for every b counted in H_ba the whole run is
\* recorded
C23_CbRunFromFirstAfterHerald ==
  cd.pc \in {"passB", "done", "raised"} =>
     \A ia \in 0..(Len(cd.t1) - 1), ib \in 0..(Len(cd.t2) - 1) :
        LET a == At(cd.t1, ia)
            b == At(cd.t2, ib)
            f == FirstStop(cd.t3, a)
        IN /\ b < a => CbCounted(ia, ib) = {}
           /\ b >= a =>
                /\ CbCounted(ia, ib) \in {{}, CbRun(a, b)}
                /\ (f # 0 /\ cd.t3[f] < b) => CbCounted(ia, ib) = {}
                /\ (\E n \in 1..Len(cd.incs) : cd.incs[n].h = "ba"
                        /\ cd.incs[n].it_a = ia /\ cd.incs[n].iy = ib)
                     => CbCounted(ia, ib) = CbRun(a, b)
                /\ \A ic \in CbCounted(ia, ib) :
                     Cardinality({n \in 1..Len(cd.incs) :
                         cd.incs[n].h = "cb" /\ cd.incs[n].it_a = ia
                         /\ cd.incs[n].ix = ib /\ cd.incs[n].iy = ic}) = 1

\* a finished first pass that counted in H_cb for one pair and, for another
\* pair, recorded nothing because the first t3 entry >= a is earlier than b
\* although a later t3 entry lies in the window after b
C23_Witness ==
  /\ cd.pc = "passB"
  /\ \E ia \in 0..(Len(cd.t1) - 1), ib \in 0..(Len(cd.t2) - 1) : CbCounted(ia, ib) # {}
  /\ \E ia \in 0..(Len(cd.t1) - 1), ib \in 0..(Len(cd.t2) - 1) :
        LET a == At(cd.t1, ia)
            b == At(cd.t2, ib)
            f == FirstStop(cd.t3, a)
        IN /\ b >= a /\ b - a < cd.bins * cd.bin_width
           /\ f # 0 /\ cd.t3[f] < b
           /\ \E q \in 1..Len(cd.t3) :
                 0 <= cd.t3[q] - b /\ cd.t3[q] - b < cd.bins * cd.bin_width
           /\ CbCounted(ia, ib) = {}

-----------------------------------------------------------------------------
(* The work of delta_loop: dl.reads counts the executions of `c = t2[idx + n]` *)

\* C24 as stated: across one call on ascending inputs the inner scan reads at
\* most len(t1) + len(t2) elements of t2 in total
C24_ReadsLinear ==
  (dl.pc = "done" /\ Asc(dl.t1) /\ Asc(dl.t2)) =>
     dl.reads <= Len(dl.t1) + Len(dl.t2)

\* C24 amended: across one call on ascending inputs the inner scan reads at
\* most len(t1) + len(t2) + sum(histogram) elements of t2: every read either
\* advances the cached cursor for good (a stop smaller than the start), or
\* ends the scan of the current start (a stop at or past the window), or
\* counts a coincidence and goes on to the next stop
C24_ReadsLinearPlusCounted ==
  (dl.pc \in {"loop", "done"} /\ Asc(dl.t1) /\ Asc(dl.t2)) =>
     /\ dl.reads <= dl.it_b + dl.idx2 + Len(dl.incs)
     /\ dl.reads >= dl.idx2 + Len(dl.incs)
     /\ dl.idx2 <= Len(dl.t2)
     /\ dl.pc = "done" =>
          dl.reads <= Len(dl.t1) + Len(dl.t2) + HistSum(dl.histogram)

\* a finished call that advanced its cursor, ended a scan at the window edge
\* and read more than len(t1) + len(t2) stops because of the counted ones
C24_Witness ==
  /\ dl.pc = "done"
  /\ Asc(dl.t1) /\ Asc(dl.t2)
  /\ dl.idx2 > 0
  /\ dl.reads > dl.idx2 + Len(dl.incs)
  /\ dl.reads > Len(dl.t1) + Len(dl.t2)

-----------------------------------------------------------------------------
(* The cached cursor of delta_loop and delta_loop_ts *)

\* every element of t2 below the cursor is strictly smaller than the start b
BelowCursorEarlier(t2, cursor, b) == \A j \in 0..(cursor - 1) : At(t2, j) < b

\* C25: for ascending t1 and t2, whenever delta_loop or delta_loop_ts begins
\* the scan for start t1[i], every element of t2 at an index below the cached
\* cursor is strictly smaller than t1[i]: no stop t2[j] >= t1[i] lies below
\* the index the scan starts at
C25_CursorBelowStart ==
  /\ (dl.pc = "loop" /\ dl.it_b < Len(dl.t1) /\ Asc(dl.t1) /\ Asc(dl.t2)) =>
        BelowCursorEarlier(dl.t2, dl.idx2, At(dl.t1, dl.it_b))
  /\ (dts.pc = "loop" /\ dts.t1_idx < Len(dts.t1s) /\ Asc(dts.t1s) /\ Asc(dts.t2s)) =>
        BelowCursorEarlier(dts.t2s, dts.t2_idx_left, At(dts.t1s, dts.t1_idx))

\* delta_loop is about to scan for a later start with its cursor moved on,
\* and a stop equal to that start lies right at the cursor
C25_Witness ==
  /\ dl.pc = "loop" /\ dl.it_b > 0 /\ dl.it_b < Len(dl.t1)
  /\ Asc(dl.t1) /\ Asc(dl.t2)
  /\ dl.idx2 > 0 /\ dl.idx2 < Len(dl.t2)
  /\ At(dl.t2, dl.idx2) = At(dl.t1, dl.it_b)


\* C26: within one call of delta_loop or delta_loop_ts the cached cursor into
\* t2 (idx2 / t2_idx_left) starts at 0, never decreases from one start to the
\* next, is never reset, and never exceeds len(t2), whatever the order of the
\* inputs
C26_CursorMonotone ==
  [][/\ (dl.pc # "loop" /\ dl'.pc = "loop") => dl'.idx2 = 0
     /\ (dl.pc = "loop" /\ dl'.pc \in {"loop", "done"}) => dl'.idx2 >= dl.idx2
     /\ dl'.pc \in {"loop", "done"} => (0 <= dl'.idx2 /\ dl'.idx2 <= Len(dl'.t2))
     /\ (dts.pc # "loop" /\ dts'.pc = "loop") => dts'.t2_idx_left = 0
     /\ (dts.pc = "loop" /\ dts'.pc \in {"loop", "done"}) =>
          dts'.t2_idx_left >= dts.t2_idx_left
     /\ dts'.pc \in {"loop", "done"} =>
          (0 <= dts'.t2_idx_left /\ dts'.t2_idx_left <= Len(dts'.t2s))]_vars

\* delta_loop_ts has scanned for several starts, the cursor has reached
\* len(t2) and another start is still to be scanned
C26_Witness ==
  /\ dts.pc = "loop"
  /\ dts.t1_idx > 1 /\ dts.t1_idx < Len(dts.t1s)
  /\ dts.t2s # <<>>
  /\ dts.t2_idx_left = Len(dts.t2s)

-----------------------------------------------------------------------------
(* The window FIFO of count_4coinc *)

\* the first n events of the stream, in arrival order
EventsUpTo(ts, ps, n) == [i \in 1..n |-> [t |-> ts[i], p |-> ps[i]]]

\* of the first n events those whose time is greater than t - coincw_ns
YoungerThan(ts, ps, n, t, coincw_ns) ==
  SelectSeq(EventsUpTo(ts, ps, n), LAMBDA e : e.t > t - coincw_ns)

\* C27: in count_4coinc on an ascending stream, immediately after the event at
\* index j (time t) has been processed, the window FIFO holds, in arrival
\* order, exactly the events with index <= j whose time is greater than
\* t - coincw_ns
C27_WindowIsTrailingEvents ==
  (c4.pc \in {"loop", "done"} /\ c4.j > 0) =>
     c4.window = YoungerThan(c4.ts, c4.ps, c4.j, At(c4.ts, c4.j - 1), c4.coincw_ns)


\* the number of queued events that carry channel i in their pattern
Carrying(window, i) == Cardinality({a \in 1..Len(window) : Bit(window[a].p, i)})

\* the number of queued events of channel i (the queued p is a channel id)
OfChannel(window, i) == Cardinality({a \in 1..Len(window) : window[a].p = i})

\* C28: in count_4coinc and count_4coinc_indiv, between the processing of any
\* two events, the active count of each channel i is the number of events in
\* the window FIFO that carry channel i, and is never negative
C28_CountsMatchWindow ==
  /\ c4.pc \in {"loop", "done"} =>
        \A i \in Channels :
           c4.ch_counts[i] = Carrying(c4.window, i) /\ c4.ch_counts[i] >= 0
  /\ ci.pc \in {"loop", "done"} =>
        \A i \in Channels :
           ci.ch_counts[i] = OfChannel(ci.window, i) /\ ci.ch_counts[i] >= 0

\* count_4coinc has evicted an event that carried all four channels and two
\* events are queued, one of them carrying several channels
C28_Witness ==
  /\ c4.pc = "loop"
  /\ c4.j = Len(c4.window) + 1
  /\ At(c4.ps, 0) = 15
  /\ Len(c4.window) = 2
  /\ \E a \in 1..2 : c4.window[a].p = 15
  /\ \E i \in Channels : c4.ch_counts[i] = 2

-----------------------------------------------------------------------------
(* The order in which count_4coinc_indiv processes its events *)

\* C29: count_4coinc_indiv processes the events of the four ascending channel
\* arrays in non-decreasing timestamp order, and among events with equal
\* timestamps the one from the lower channel id first: the events popped so
\* far are in lexicographic order on (time, channel-id), and no event still
\* to come is earlier in that order than one already processed
C29_LexicographicOrder ==
  ci.pc \in {"loop", "done"} =>
     /\ \A a \in 1..Len(ci.order), b \in 1..Len(ci.order) :
          a < b =>
             \/ ci.order[a][1] < ci.order[b][1]
             \/ ci.order[a][1] = ci.order[b][1] /\ ci.order[a][2] <= ci.order[b][2]
     /\ \A a \in 1..Len(ci.order), ch \in Channels :
          \A n \in (ci.ch_idxs[ch] + 1)..Len(ci.tss[ch]) :
             \/ ci.order[a][1] < ci.tss[ch][n]
             \/ ci.order[a][1] = ci.tss[ch][n] /\ ci.order[a][2] <= ch
     /\ \A a \in 1..Len(ci.order) : \A e \in ci.stream :
          \/ ci.order[a][1] < e[1]
          \/ ci.order[a][1] = e[1] /\ ci.order[a][2] <= e[2]
     /\ ci.pc = "done" =>
          Len(ci.order) = Len(ci.tss[0]) + Len(ci.tss[1]) + Len(ci.tss[2]) + Len(ci.tss[3])

\* a finished call that processed events of two times, a higher channel at
\* the earlier time before a lower channel at the later time, and at one
\* time the four channels in ascending order
C29_Witness ==
  /\ ci.pc = "done"
  /\ \E a \in 1..Len(ci.order), b \in 1..Len(ci.order) :
        a < b /\ ci.order[a][1] < ci.order[b][1] /\ ci.order[a][2] > ci.order[b][2]
  /\ \E a \in 1..(Len(ci.order) - 3) :
        \A ch \in Channels : ci.order[a + ch] = <<ci.order[a][1], ch>>

-----------------------------------------------------------------------------
(* delta_loop and delta_loop_ts on inputs in any order *)

\* every logged increment read t2 at a valid index and counted at a valid
\* index of the histogram
IncsInBounds(incs, l_t1, l_t2, bins, bin_width) ==
  \A a \in 1..Len(incs) :
     /\ incs[a].i \in 0..(l_t1 - 1)
     /\ incs[a].j \in 0..(l_t2 - 1)
     /\ BinOf(incs[a].k, bin_width) \in 0..(bins - 1)

\* C30: for arbitrary inputs, also unsorted ones, with bins > 0 and
\* bin_width > 0, delta_loop and delta_loop_ts raise no error and stay within
\* bounds: every read of t2 uses an index in [0, len(t2)-1], every mask write
\* a valid index of its mask, and every histogram index is in [0, bins-1]
C30_NoErrorOnAnyInput ==
  /\ dl.pc # "raised"
  /\ IncsInBounds(dl.incs, Len(dl.t1), Len(dl.t2), dl.bins, dl.bin_width)
  /\ dl.idx2 \in 0..Len(dl.t2)
  /\ IncsInBounds(dts.incs, Len(dts.t1s), Len(dts.t2s), dts.bins_len, dts.bin_width)
  /\ dts.t2_idx_left \in 0..Len(dts.t2s)
  /\ DOMAIN dts.mask1 = 1..Len(dts.t1s)
  /\ DOMAIN dts.mask2 = 1..Len(dts.t2s)

====
